---------------------------- MODULE Spec2Model ----------------------------
(***************************************************************************)
(* Model of upm::FaceAlignment (src/src/FaceAlignment.cpp): parseOptions,  *)
(* show, evaluate and save.                                                *)
(*                                                                         *)
(* Conventions.                                                            *)
(*  - std::string is a sequence of one-character strings, so that          *)
(*    find_last_of, substr, operator+ and std::to_string are computed.     *)
(*  - float occlusion degrees are counted in tenths (0.5f is 5).           *)
(*  - float errors are exact rationals [num, den]; den = 0 with num = 0 is *)
(*    the NaN that 0.0f / 0.0f produces.  Rounding of float arithmetic is  *)
(*    not modelled.                                                        *)
(*  - a cv::Mat is the name of the decoded file plus the sequence of       *)
(*    drawing primitives applied to it, in order.                          *)
(*  - the file system is a function from paths to stored images.           *)
(***************************************************************************)
EXTENDS Integers, Sequences, FiniteSets, TLC

VARIABLES
    _measure,    \* FaceAlignment::_measure
    _database,   \* FaceAlignment::_database
    fs,          \* the file system: path -> image
    last,        \* the last completed call: its arguments and what it emitted
    saved,       \* number of predicted faces save has processed so far
    writers      \* concurrent save calls in progress (SpecRace only)

vars == <<_measure, _database, fs, last, saved, writers>>

--------------------------------------------------------------------------
(* Bounds of the model. *)

\* longest list of predicted faces passed to show or evaluate
MaxFaces == 2
\* number of predicted faces passed to save in one run, over all its calls
MaxSaved == 2
\* number of predicted faces passed to the concurrent save calls, over both
MaxRaceFaces == 2

--------------------------------------------------------------------------
(* Strings. *)

\* std::string::npos; size_t(-1) + 1 wraps to 0, as -1 + 1 does here
npos == -1

DigitChar(d) ==
    CASE d = 0 -> "0" [] d = 1 -> "1" [] d = 2 -> "2" [] d = 3 -> "3"
      [] d = 4 -> "4" [] d = 5 -> "5" [] d = 6 -> "6" [] d = 7 -> "7"
      [] d = 8 -> "8" [] d = 9 -> "9"

RECURSIVE to_string(_)
\* std::to_string(unsigned int): decimal digits, most significant first
to_string(n) ==
    IF n < 10 THEN <<DigitChar(n)>>
    ELSE to_string(n \div 10) \o <<DigitChar(n % 10)>>

\* std::string::find_last_of(c): 0-based position of the last c, or npos
find_last_of(s, c) ==
    LET hits == {i \in 1..Len(s) : s[i] = c}
    IN  IF hits = {} THEN npos
        ELSE (CHOOSE i \in hits : \A j \in hits : j <= i) - 1

\* std::string::substr(pos): the characters from 0-based position pos on
substr(s, pos) == SubSeq(s, pos + 1, Len(s))

--------------------------------------------------------------------------
(* ErrorMeasure and the option strings. *)

pupils   == "ErrorMeasure::pupils"
corners  == "ErrorMeasure::corners"
height   == "ErrorMeasure::height"
diagonal == "ErrorMeasure::diagonal"

ErrorMeasure == {pupils, corners, height, diagonal}

\* an option that is not on the command line
NoOption == "(absent)"

\* values of --measure tried: the four documented ones and four others
MeasureOptions ==
    {"pupils", "corners", "height", "diagonal", "", "Height", "pupil", "area"}

\* values of --database tried
DatabaseOptions == {"aflw", "wflw"}

\* default_value of --measure
DefaultMeasureOption == "height"

\* default_value of --database
DefaultDatabaseOption == "aflw"

\* the measure a recognised option string names
MeasureNamed(s) ==
    CASE s = "pupils" -> pupils [] s = "corners" -> corners
      [] s = "height" -> height [] s = "diagonal" -> diagonal

measure_of_mutant(s) ==
    IF s = "pupils" THEN pupils
    ELSE IF s = "corners" THEN corners
    ELSE IF s = "diagonal" THEN diagonal
    ELSE height

\* the conditional chain that sets _measure from the option string
measure_of(s) ==
    IF s = "pupils" THEN pupils
    ELSE IF s = "corners" THEN corners
    ELSE IF s = "height" THEN height
    ELSE diagonal

\* vm["measure"]: the option's value, or its default_value when absent
vm_measure(argv) ==
    IF argv.measure = NoOption THEN DefaultMeasureOption ELSE argv.measure

\* vm["database"]: the option's value, or its default_value when absent
vm_database(argv) ==
    IF argv.database = NoOption THEN DefaultDatabaseOption ELSE argv.database

--------------------------------------------------------------------------
(* Annotations: FaceLandmark, FacePart, FaceAnnotation. *)

Landmark(idx, x, y, occ) ==
    [feature_idx |-> idx, pos |-> <<x, y>>, occluded |-> occ]

\* 0.5f, in tenths
OccludedLevel == 5

\* the colours of show and save, as cv::Scalar triples
cyan_color  == <<255, 122, 0>>
blue_color  == <<255, 0, 0>>
green_color == <<0, 255, 0>>
red_color   == <<0, 0, 255>>

Max(a, b) == IF a >= b THEN a ELSE b

\* roundf(h * 0.01f) for h >= 0: hundredths of h, halves rounded up
RoundHundredths(h) == (h + 50) \div 100

\* roundf(h * 0.005f) for h >= 0
RoundHalfHundredths(h) == (h + 100) \div 200

radius_of(ann) == Max(RoundHundredths(ann.bbox.height), 3)

thickness_of(ann) == Max(RoundHalfHundredths(ann.bbox.height), 2)

edge_color_mutant(a, b, normal, occl) ==
    IF (a.occluded < OccludedLevel) /\ (b.occluded < OccludedLevel)
    THEN normal ELSE occl

\* the colour of the line between consecutive landmarks a and b
edge_color(a, b, normal, occl) ==
    IF (a.occluded < OccludedLevel) \/ (b.occluded < OccludedLevel)
    THEN normal ELSE occl

\* the colour of the disc at landmark a
point_color(a, normal, occl) ==
    IF a.occluded < OccludedLevel THEN normal ELSE occl

Line(a, b, color, thickness) ==
    [op |-> "line", p |-> a.pos, q |-> b.pos, color |-> color,
     thickness |-> thickness]

Circle(a, radius, color) ==
    [op |-> "circle", p |-> a.pos, radius |-> radius, color |-> color,
     thickness |-> -1]

RECURSIVE part_drawing(_, _, _, _, _, _)
\* one part, from landmark it on: the line to the next landmark when there
\* is one, then the disc
part_drawing(lms, it, normal, occl, radius, thickness) ==
    IF it > Len(lms) THEN <<>>
    ELSE (IF it + 1 <= Len(lms)
          THEN <<Line(lms[it], lms[it + 1],
                      edge_color(lms[it], lms[it + 1], normal, occl),
                      thickness)>>
          ELSE <<>>)
         \o <<Circle(lms[it], radius, point_color(lms[it], normal, occl))>>
         \o part_drawing(lms, it + 1, normal, occl, radius, thickness)

RECURSIVE skeleton(_, _, _, _, _)
\* the primitives drawn for the parts of one annotation, in drawing order
skeleton(parts, normal, occl, radius, thickness) ==
    IF parts = <<>> THEN <<>>
    ELSE part_drawing(Head(parts), 1, normal, occl, radius, thickness)
         \o skeleton(Tail(parts), normal, occl, radius, thickness)

RECURSIVE faces_skeleton(_, _, _)
\* show: the predicted skeletons of all faces, in list order
faces_skeleton(faces, radius, thickness) ==
    IF faces = <<>> THEN <<>>
    ELSE skeleton(Head(faces).parts, green_color, red_color, radius, thickness)
         \o faces_skeleton(Tail(faces), radius, thickness)

\* what show draws on the viewer
show_drawing(faces, ann) ==
    skeleton(ann.parts, cyan_color, blue_color, radius_of(ann), thickness_of(ann))
    \o faces_skeleton(faces, radius_of(ann), thickness_of(ann))

--------------------------------------------------------------------------
(* The error computer, getNormalizedErrors, is declared outside this file. *)

\* all landmarks of an annotation, parts in order
RECURSIVE landmarks_of(_)
landmarks_of(parts) ==
    IF parts = <<>> THEN <<>> ELSE Head(parts) \o landmarks_of(Tail(parts))

\* find_if over the parts in order: the first landmark with this id, as a
\* sequence of zero or one landmark
find(parts, idx) ==
    LET all  == landmarks_of(parts)
        hits == {i \in 1..Len(all) : all[i].feature_idx = idx}
    IN  IF hits = {} THEN <<>>
        ELSE <<all[CHOOSE i \in hits : \A j \in hits : i <= j]>>

\* floor of the square root
ISqrt(n) == CHOOSE r \in 0..n : r * r <= n /\ n < (r + 1) * (r + 1)

euclidean(p, q) ==
    ISqrt((p[1] - q[1]) * (p[1] - q[1]) + (p[2] - q[2]) * (p[2] - q[2]))

\* the ids of the two landmarks that define each landmark-based measure
PupilIds  == <<1, 2>>
CornerIds == <<1, 3>>

\* the normalisation distance of a ground-truth annotation
normalize(ann, measure) ==
    CASE measure = height   -> ann.bbox.height
      [] measure = diagonal ->
           ISqrt(ann.bbox.width * ann.bbox.width + ann.bbox.height * ann.bbox.height)
      [] measure = pupils   ->
           euclidean(find(ann.parts, PupilIds[1])[1].pos,
                     find(ann.parts, PupilIds[2])[1].pos)
      [] measure = corners  ->
           euclidean(find(ann.parts, CornerIds[1])[1].pos,
                     find(ann.parts, CornerIds[2])[1].pos)

RECURSIVE matched(_, _)
\* the ground-truth landmarks, in ground-truth order, that the prediction
\* also has
matched(gt, face) ==
    IF gt = <<>> THEN <<>>
    ELSE (IF find(face.parts, Head(gt).feature_idx) # <<>>
          THEN <<Head(gt)>> ELSE <<>>)
         \o matched(Tail(gt), face)

\* indices and errors, parallel: one entry per landmark both sides have
getNormalizedErrors(face, ann, measure) ==
    LET m    == matched(landmarks_of(ann.parts), face)
        norm == normalize(ann, measure)
    IN  [indices |-> [j \in 1..Len(m) |-> m[j].feature_idx],
         errors  |-> [j \in 1..Len(m) |->
                        [num |-> euclidean(find(face.parts, m[j].feature_idx)[1].pos,
                                           m[j].pos),
                         den |-> norm]]]

\* getComponentClass(): the label that starts every report line
getComponentClass == <<"F", "a", "c", "e", "A", "l", "i", "g", "n", "m", "e", "n", "t">>

--------------------------------------------------------------------------
(* evaluate: one report line per predicted face. *)

\* 0.0f / 0.0f
is_nan(e) == e.den = 0 /\ e.num = 0

\* std::to_string(err) and operator<<(float): "nan", or the value written
\* exactly, as numerator/denominator
float_to_string(e) ==
    IF is_nan(e) THEN <<"n", "a", "n">>
    ELSE to_string(e.num) \o <<"/">> \o to_string(e.den)

\* the occlusion token of one side: the first landmark with this id in the
\* parts, nothing when no part has it
occlusion_token(parts, idx) ==
    IF find(parts, idx) = <<>> THEN <<>>
    ELSE <<to_string(find(parts, idx)[1].occluded)>>

evaluate_entry_mutant(face, ann, idx, error) ==
    <<to_string(idx), float_to_string(error)>>
    \o occlusion_token(ann.parts, idx)

\* what the body of the loop over indices writes for one (idx, error)
evaluate_entry(face, ann, idx, error) ==
    <<to_string(idx), float_to_string(error)>>
    \o occlusion_token(ann.parts, idx)
                   \o occlusion_token(face.parts, idx)

RECURSIVE evaluate_entries(_, _, _, _)
evaluate_entries(face, ann, res, j) ==
    IF j > Len(res.indices) THEN <<>>
    ELSE evaluate_entry(face, ann, res.indices[j], res.errors[j])
         \o evaluate_entries(face, ann, res, j + 1)

\* the tokens of the line written for one predicted face
evaluate_line(face, ann, measure) ==
    <<getComponentClass, ann.filename>>
    \o evaluate_entries(face, ann, getNormalizedErrors(face, ann, measure), 1)

RECURSIVE evaluate_lines(_, _, _)
\* the lines written for the list of faces, in list order
evaluate_lines(faces, ann, measure) ==
    IF faces = <<>> THEN <<>>
    ELSE <<evaluate_line(Head(faces), ann, measure)>>
         \o evaluate_lines(Tail(faces), ann, measure)

--------------------------------------------------------------------------
(* save: the threshold, the mean error, the probe and the write. *)

threshold_mutant(measure, database) ==
    IF database = "wflw" THEN 10
    ELSE IF measure = height THEN 4
    ELSE IF measure = diagonal THEN 3
    ELSE 8

\* three independent ifs after the initialisation: the last one that applies
\* wins
threshold(measure, database) ==
    LET t0 == 8
        t1 == IF database = "wflw" THEN 10 ELSE t0
        t2 == IF measure = height THEN 4 ELSE t1
        t3 == IF measure = diagonal THEN 3 ELSE t2
    IN  t3

RECURSIVE accumulate(_, _)
\* std::accumulate(errors.begin(), errors.end(), 0.0)
accumulate(errors, init) ==
    IF errors = <<>> THEN init
    ELSE accumulate(Tail(errors),
                    [num |-> init.num * Head(errors).den + Head(errors).num * init.den,
                     den |-> init.den * Head(errors).den])

\* sum / static_cast<float>(errors.size()); 0 / 0 is NaN
mean_error(errors) ==
    LET sum == accumulate(errors, [num |-> 0, den |-> 1])
    IN  [num |-> sum.num, den |-> sum.den * Len(errors)]

greater_mutant(e, t) ==
    IF e.den = 0 THEN e.num > 0 ELSE e.num >= t * e.den

\* e > t on floats: false for NaN, true for +inf
greater(e, t) ==
    IF e.den = 0 THEN e.num > 0 ELSE e.num > t * e.den

PutText(text) == [op |-> "text", text |-> text, color |-> red_color]

\* cv::imread(filename, cv::IMREAD_COLOR)
imread(filename) == [src |-> filename, drawn |-> <<>>]

\* drawing on an image appends to what is drawn on it
draw(image, prims) == [image EXCEPT !.drawn = @ \o prims]

\* boost::filesystem::exists
exists(fsys, path) == path \in DOMAIN fsys

imwrite_mutant(fsys, path, image) ==
    [p \in DOMAIN fsys \cup {path} |-> IF p \in DOMAIN fsys THEN fsys[p] ELSE image]

\* cv::imwrite: creates the file, or replaces the one that is there
imwrite(fsys, path, image) ==
    [p \in DOMAIN fsys \cup {path} |-> IF p = path THEN image ELSE fsys[p]]

\* face.filename.substr(found + 1)
basename(filename) ==
    substr(filename, find_last_of(filename, "/") + 1)

candidate_mutant(dirpath, filename, num) ==
    dirpath \o to_string(num + 1) \o <<"_">> \o basename(filename)

\* the path tried for index num
candidate(dirpath, filename, num) ==
    dirpath \o to_string(num) \o <<"_">> \o basename(filename)

probe_mutant(fsys, dirpath, filename, num) ==
    <<candidate(dirpath, filename, num)>>

RECURSIVE probe(_, _, _, _)
\* the do-while: the paths tried from index num on, the last one being the
\* first that does not exist
probe(fsys, dirpath, filename, num) ==
    IF exists(fsys, candidate(dirpath, filename, num))
    THEN <<candidate(dirpath, filename, num)>>
         \o probe(fsys, dirpath, filename, num + 1)
    ELSE <<candidate(dirpath, filename, num)>>

\* the image after the predicted skeleton of one face is drawn on it
face_drawn(image, face, ann) ==
    draw(image, skeleton(face.parts, green_color, red_color,
                         radius_of(ann), thickness_of(ann)))

\* the body of the loop over faces up to the test: drawing, error, text
face_scored(image, face, ann, measure) ==
    LET res == getNormalizedErrors(face, ann, measure)
        err == mean_error(res.errors)
    IN  [errors |-> res.errors,
         err    |-> err,
         image  |-> draw(face_drawn(image, face, ann),
                         <<PutText(float_to_string(err))>>)]

\* the image save starts from: the decoded file with the ground truth drawn
ground_truth_drawn(ann) ==
    draw(imread(ann.filename),
         skeleton(ann.parts, cyan_color, blue_color,
                  radius_of(ann), thickness_of(ann)))

RECURSIVE save_faces_mutant(_, _, _, _, _, _, _, _)
save_faces_mutant(faces, ann, dirpath, measure, thr, image, fsys, log) ==
    IF faces = <<>> THEN [fs |-> fsys, log |-> log, image |-> image]
    ELSE LET sc    == face_scored(ground_truth_drawn(ann), Head(faces), ann, measure)
             hard  == greater(sc.err, thr)
             tried == IF hard
                      THEN probe(fsys, dirpath, Head(faces).filename, 0)
                      ELSE <<>>
             after == IF hard
                      THEN imwrite(fsys, tried[Len(tried)], sc.image)
                      ELSE fsys
         IN  save_faces_mutant(Tail(faces), ann, dirpath, measure, thr, sc.image, after,
                        Append(log, [errors |-> sc.errors, err |-> sc.err,
                                     hard |-> hard, tried |-> tried,
                                     image |-> sc.image]))

RECURSIVE save_faces(_, _, _, _, _, _, _, _)
\* the loop over the predicted faces: the one image is carried from face to
\* face; log gets one entry per face
save_faces(faces, ann, dirpath, measure, thr, image, fsys, log) ==
    IF faces = <<>> THEN [fs |-> fsys, log |-> log, image |-> image]
    ELSE LET sc    == face_scored(image, Head(faces), ann, measure)
             hard  == greater(sc.err, thr)
             tried == IF hard
                      THEN probe(fsys, dirpath, Head(faces).filename, 0)
                      ELSE <<>>
             after == IF hard
                      THEN imwrite(fsys, tried[Len(tried)], sc.image)
                      ELSE fsys
         IN  save_faces(Tail(faces), ann, dirpath, measure, thr, sc.image, after,
                        Append(log, [errors |-> sc.errors, err |-> sc.err,
                                     hard |-> hard, tried |-> tried,
                                     image |-> sc.image]))

--------------------------------------------------------------------------
(* The annotations and file systems the operations are tried on. *)

FileA == <<"d", "/", "a">>
FileB == <<"a">>

\* ground truth: one part of three landmarks with occlusion 0, 1.0 and 0.5;
\* every normalisation distance is 1
GroundTruthA ==
    [filename |-> FileA,
     bbox     |-> [width |-> 0, height |-> 1],
     parts    |-> << <<Landmark(1, 0, 6, 0), Landmark(2, 1, 6, 10),
                       Landmark(3, 0, 7, 5)>> >>]

\* ground truth: a part of two visible landmarks and a part of one occluded
\* landmark; every normalisation distance is 2
GroundTruthB ==
    [filename |-> FileB,
     bbox     |-> [width |-> 0, height |-> 2],
     parts    |-> << <<Landmark(1, 0, 0, 0), Landmark(2, 2, 0, 0)>>,
                     <<Landmark(3, 0, 2, 10)>> >>]

GroundTruths == {GroundTruthA, GroundTruthB}

\* mean error 4 against GroundTruthA and 5 against GroundTruthB
PartsNear == << <<Landmark(1, 0, 10, 0), Landmark(2, 1, 10, 10)>> >>

\* mean error 11 against GroundTruthA and 17/2 against GroundTruthB
PartsFar == << <<Landmark(1, 0, 17, 10), Landmark(2, 1, 17, 5)>> >>

\* no landmark id shared with a ground truth
PartsOther == << <<Landmark(8, 0, 0, 0)>>, <<Landmark(9, 1, 0, 0)>> >>

\* the landmark sets a predictor may return
PredictedParts == {PartsNear, PartsFar, PartsOther}

\* predictions for the image of ann: they carry its filename and bounding box
PredictedFaces(ann) ==
    {[filename |-> ann.filename, bbox |-> ann.bbox, parts |-> p] :
        p \in PredictedParts}

SeqsUpTo(S, n) == UNION {[1..k -> S] : k \in 0..n}

OutputDir == <<"o", "/">>

OldImage == [src |-> <<"o", "l", "d">>, drawn |-> <<>>]

\* a directory that already holds the files with these indices for the
\* basename of FileA and FileB
DirWith(indices) ==
    [p \in {OutputDir \o to_string(n) \o <<"_", "a">> : n \in indices}
        |-> OldImage]

InitialFileSystems == {DirWith({}), DirWith({1})}

Idle == [pc |-> "idle", n |-> 0]

Writers == {1, 2}

--------------------------------------------------------------------------
(* The operations, one call each. *)

\* after construction: _database is the empty string, _measure is not set
Init ==
    /\ _measure \in ErrorMeasure
    /\ _database = ""
    /\ fs \in InitialFileSystems
    /\ last = [op |-> "constructed"]
    /\ saved = 0
    /\ writers = [w \in Writers |-> Idle]

\* the options are parsed once, before the first image is processed
configured == last.op # "constructed"

ParseOptions ==
    /\ ~configured
    /\ \E m \in MeasureOptions \cup {NoOption},
          d \in DatabaseOptions \cup {NoOption} :
         LET argv == [measure |-> m, database |-> d]
         IN  /\ _measure' = measure_of(vm_measure(argv))
             /\ _database' = vm_database(argv)
             /\ last' = [op |-> "parseOptions", argv |-> argv]
             /\ UNCHANGED <<fs, saved, writers>>

Show ==
    /\ configured
    /\ \E ann \in GroundTruths :
         \E faces \in SeqsUpTo(PredictedFaces(ann), MaxFaces) :
           /\ last' = [op |-> "show", faces |-> faces, ann |-> ann,
                       viewer |-> show_drawing(faces, ann)]
           /\ UNCHANGED <<_measure, _database, fs, saved, writers>>

\* what the caller's stream may hold before evaluate is called
StreamsBefore == {<<>>, << <<getComponentClass, FileB>> >>}

Evaluate ==
    /\ configured
    /\ \E ann \in GroundTruths, before \in StreamsBefore :
         \E faces \in SeqsUpTo(PredictedFaces(ann), MaxFaces) :
           /\ last' = [op |-> "evaluate", faces |-> faces, ann |-> ann,
                       measure |-> _measure, before |-> before,
                       output |-> before \o evaluate_lines(faces, ann, _measure)]
           /\ UNCHANGED <<_measure, _database, fs, saved, writers>>

\* the whole of save: the file system it leaves and its per-face log
save(dirpath, faces, ann, measure, database, fsys) ==
    save_faces(faces, ann, dirpath, measure, threshold(measure, database),
               ground_truth_drawn(ann), fsys, <<>>)

Save ==
    /\ configured
    /\ \E ann \in GroundTruths :
         \E faces \in SeqsUpTo(PredictedFaces(ann), MaxSaved - saved) :
           LET r == save(OutputDir, faces, ann, _measure, _database, fs)
           IN  /\ fs' = r.fs
               /\ last' = [op |-> "save", faces |-> faces, ann |-> ann,
                           dirpath |-> OutputDir, measure |-> _measure,
                           database |-> _database,
                           threshold |-> threshold(_measure, _database),
                           before |-> fs, log |-> r.log, image |-> r.image]
               /\ saved' = saved + Len(faces)
               /\ UNCHANGED <<_measure, _database, writers>>

Next == ParseOptions \/ Save

Spec == Init /\ [][Next]_vars

\* the report writer alone
NextEvaluate == ParseOptions \/ Evaluate

SpecEvaluate == Init /\ [][NextEvaluate]_vars

\* the two operations that draw, with the default options parsed
InitDraw ==
    /\ _measure = measure_of(DefaultMeasureOption)
    /\ _database = DefaultDatabaseOption
    /\ fs = DirWith({})
    /\ last = [op |-> "parseOptions",
               argv |-> [measure |-> NoOption, database |-> NoOption]]
    /\ saved = 0
    /\ writers = [w \in Writers |-> Idle]

NextDraw == Show \/ Save

SpecDraw == InitDraw /\ [][NextDraw]_vars

--------------------------------------------------------------------------
(* Two save calls at once.  A call is cut at its accesses to the file      *)
(* system, exists and imwrite; everything between two accesses is local to *)
(* the call and is done in the step that ends with the access before it.   *)

RECURSIVE advance(_, _, _)
\* a call runs on to its next first probe, or to its end
advance(rec, measure, thr) ==
    IF rec.faces = <<>> THEN [rec EXCEPT !.pc = "done"]
    ELSE LET sc == face_scored(rec.image, Head(rec.faces), rec.ann, measure)
         IN  IF greater(sc.err, thr)
             THEN [rec EXCEPT !.pc = "probe", !.image = sc.image, !.num = 0]
             ELSE advance([rec EXCEPT !.image = sc.image, !.faces = Tail(@)],
                          measure, thr)

InitRace ==
    /\ _measure = measure_of(DefaultMeasureOption)
    /\ _database = DefaultDatabaseOption
    /\ fs \in InitialFileSystems
    /\ last = [op |-> "parseOptions",
               argv |-> [measure |-> NoOption, database |-> NoOption]]
    /\ saved = 0
    /\ writers = [w \in Writers |-> Idle]

\* faces already handed to the concurrent calls
RaceFaces == writers[1].n + writers[2].n

\* save is entered: the image is decoded and the ground truth drawn
RaceBegin(w) ==
    /\ writers[w].pc = "idle"
    /\ \E ann \in GroundTruths :
         \E faces \in SeqsUpTo(PredictedFaces(ann), MaxRaceFaces - RaceFaces) :
           writers' = [writers EXCEPT ![w] =
               advance([pc |-> "begin", n |-> Len(faces), ann |-> ann,
                        faces |-> faces, image |-> ground_truth_drawn(ann),
                        num |-> 0, filepath |-> <<>>, written |-> <<>>],
                       _measure, threshold(_measure, _database))]
    /\ UNCHANGED <<_measure, _database, fs, last, saved>>

\* one turn of the do-while: build filepath, num++, test exists(filepath)
RaceProbe(w) ==
    /\ writers[w].pc = "probe"
    /\ LET rec      == writers[w]
           filepath == candidate(OutputDir, Head(rec.faces).filename, rec.num)
       IN  writers' = [writers EXCEPT ![w] =
               [rec EXCEPT !.filepath = filepath, !.num = @ + 1,
                           !.pc = IF exists(fs, filepath) THEN "probe" ELSE "write"]]
    /\ UNCHANGED <<_measure, _database, fs, last, saved>>

\* cv::imwrite(filepath, image), then on to the next face
RaceWrite(w) ==
    /\ writers[w].pc = "write"
    /\ LET rec == writers[w]
       IN  /\ fs' = imwrite(fs, rec.filepath, rec.image)
           /\ last' = [op |-> "imwrite", w |-> w, filepath |-> rec.filepath,
                       image |-> rec.image, existed |-> exists(fs, rec.filepath),
                       before |-> fs]
           /\ writers' = [writers EXCEPT ![w] =
                  advance([rec EXCEPT !.faces = Tail(@),
                                      !.written = Append(@, rec.filepath)],
                          _measure, threshold(_measure, _database))]
    /\ saved' = saved + 1
    /\ UNCHANGED <<_measure, _database>>

NextRace == \E w \in Writers : RaceBegin(w) \/ RaceProbe(w) \/ RaceWrite(w)

SpecRace == InitRace /\ [][NextRace]_vars

--------------------------------------------------------------------------
(* Vocabulary of the properties. *)

Range(s) == {s[i] : i \in 1..Len(s)}

IsSave == last.op = "save"

\* the path the i-th face of the last save was written to (it is hard)
PathOf(i) == last.log[i].tried[Len(last.log[i].tried)]

HardFaces == {i \in 1..Len(last.log) : last.log[i].hard}

RECURSIVE SumNum(_)
SumNum(errors) ==
    IF errors = <<>> THEN 0 ELSE Head(errors).num + SumNum(Tail(errors))

\* the arithmetic mean of the errors, which share their denominator, is
\* defined and strictly greater than t
MeanExceeds(errors, t) ==
    /\ errors # <<>>
    /\ SumNum(errors) > t * errors[1].den * Len(errors)

\* the arithmetic mean of the errors is defined and equal to t
MeanEquals(errors, t) ==
    /\ errors # <<>>
    /\ SumNum(errors) = t * errors[1].den * Len(errors)

\* the part of a filename after its last '/', the whole of it without one
AfterLastSlash(f) ==
    CHOOSE s \in {SubSeq(f, k, Len(f)) : k \in 1..(Len(f) + 1)} :
        /\ "/" \notin Range(s)
        /\ Len(s) = Len(f) \/ f[Len(f) - Len(s)] = "/"

\* the files in the directory when the i-th face of the last save probed
FilesAt(i) == DOMAIN last.before \cup {PathOf(j) : j \in {h \in HardFaces : h < i}}

\* the pairs of consecutive landmarks of the parts
EdgePairs(parts) ==
    UNION {{<<parts[n][k], parts[n][k + 1]>> : k \in 1..(Len(parts[n]) - 1)} :
              n \in 1..Len(parts)}

\* the occlusion degree of the landmark with this id
OcclusionOf(parts, idx) ==
    (CHOOSE lm \in Range(landmarks_of(parts)) : lm.feature_idx = idx).occluded

--------------------------------------------------------------------------
(* C1: the threshold of save. *)

\* the table as the claim reads it: the first rule that applies
FirstMatchThreshold(measure, database) ==
    CASE database = "wflw"  -> 10
      [] measure = height   -> 4
      [] measure = diagonal -> 3
      [] OTHER              -> 8

\* the table with the measure rules ahead of the dataset rule
MeasureFirstThreshold(measure, database) ==
    CASE measure = diagonal -> 3
      [] measure = height   -> 4
      [] database = "wflw"  -> 10
      [] OTHER              -> 8

\* C1 as claimed: the threshold of save is the first match of: dataset wflw
\* 10, measure height 4, measure diagonal 3, otherwise 8; so it is 10 for
\* every measure when the dataset is wflw.
C1_FirstMatchWins ==
    IsSave => last.threshold = FirstMatchThreshold(last.measure, last.database)

\* C1 as amended: the threshold of save is 3 for measure diagonal, otherwise
\* 4 for measure height, otherwise 10 for dataset wflw, otherwise 8; every
\* face is hard exactly when its mean error exceeds that value.
C1_MeasureRulesWin ==
    IsSave =>
        /\ last.threshold = MeasureFirstThreshold(last.measure, last.database)
        /\ \A i \in 1..Len(last.log) :
             last.log[i].hard <=>
               MeanExceeds(last.log[i].errors,
                           MeasureFirstThreshold(last.measure, last.database))

\* with dataset wflw and measure height a face of mean error at most 10 is
\* saved as hard
C1_Witness ==
    /\ IsSave
    /\ last.database = "wflw"
    /\ last.measure = height
    /\ \E i \in HardFaces : ~MeanExceeds(last.log[i].errors, 10)

--------------------------------------------------------------------------
(* C2: a file is written exactly for the hard faces. *)

\* C2: in save a file is written for a predicted face if and only if the
\* mean of that face's own normalized errors is strictly greater than the
\* threshold; a mean equal to the threshold writes nothing, and the other
\* faces of the list play no part in the decision.
C2_WrittenIffMeanExceeds ==
    IsSave =>
        /\ Len(last.log) = Len(last.faces)
        /\ \A i \in 1..Len(last.faces) :
             LET own == getNormalizedErrors(last.faces[i], last.ann,
                                            last.measure).errors
             IN  /\ last.log[i].hard <=> MeanExceeds(own, last.threshold)
                 /\ last.log[i].hard <=> last.log[i].tried # <<>>
                 /\ last.log[i].hard =>
                      /\ PathOf(i) \notin DOMAIN last.before
                      /\ PathOf(i) \in DOMAIN fs
        /\ Cardinality(DOMAIN fs \ DOMAIN last.before) = Cardinality(HardFaces)

\* a list of two faces: the mean of the first equals the threshold and
\* nothing is written for it, the second is hard and written
C2_Witness ==
    /\ IsSave
    /\ Len(last.log) = 2
    /\ MeanEquals(last.log[1].errors, last.threshold)
    /\ ~last.log[1].hard
    /\ last.log[2].hard
    /\ Cardinality(DOMAIN fs \ DOMAIN last.before) = 1

--------------------------------------------------------------------------
(* C3: sequential hard-case writes never overwrite. *)

\* C3: a save call leaves every file that existed before it in place with
\* its content unchanged, and the hard cases it writes go to pairwise
\* distinct paths, each of which holds that hard case's image afterwards.
C3_NeverOverwrites ==
    IsSave =>
        /\ \A p \in DOMAIN last.before :
             p \in DOMAIN fs /\ fs[p] = last.before[p]
        /\ \A i \in HardFaces :
             /\ PathOf(i) \in DOMAIN fs
             /\ fs[PathOf(i)] = last.log[i].image
             /\ \A j \in HardFaces : i # j => PathOf(i) # PathOf(j)

\* a hard case is written into a directory that holds an earlier save's hard
\* case of the same source image, and both files exist
C3_Witness ==
    /\ IsSave
    /\ HardFaces # {}
    /\ \E p \in DOMAIN last.before :
         /\ last.before[p].src = last.ann.filename
         /\ \A i \in HardFaces : p # PathOf(i) /\ fs[p] = last.before[p]

--------------------------------------------------------------------------
(* C4: the path of a hard case. *)

\* the path the claim names for index n
NamedPath(dirpath, filename, n) ==
    dirpath \o to_string(n) \o <<"_">> \o AfterLastSlash(filename)

\* C4: the image of a hard face is written to <output_dir><n>_<basename>,
\* basename being the part of the face's filename after its last '/', and n
\* the smallest non-negative integer whose path names no file when the face
\* probes; the probe ends after n + 1 tests.
C4_SmallestFreeIndex ==
    IsSave =>
        \A i \in HardFaces :
          \E n \in 0..Cardinality(FilesAt(i)) :
            /\ PathOf(i) = NamedPath(last.dirpath, last.faces[i].filename, n)
            /\ PathOf(i) \notin FilesAt(i)
            /\ \A m \in 0..(n - 1) :
                 NamedPath(last.dirpath, last.faces[i].filename, m) \in FilesAt(i)
            /\ Len(last.log[i].tried) = n + 1

\* the directory holds index 1 only and the filename has a '/': the first
\* hard face takes index 0, the second tests 0 and 1 and takes index 2
C4_Witness ==
    /\ IsSave
    /\ "/" \in Range(last.ann.filename)
    /\ HardFaces = {1, 2}
    /\ PathOf(1) = NamedPath(last.dirpath, last.ann.filename, 0)
    /\ PathOf(2) = NamedPath(last.dirpath, last.ann.filename, 2)
    /\ Len(last.log[2].tried) = 3

--------------------------------------------------------------------------
(* C5: the colour of an edge. *)

IsDrawing == last.op \in {"show", "save"}

\* what the last show or save drew, in order
Drawn == IF last.op = "show" THEN last.viewer ELSE last.image.drawn

Occluded(a) == a.occluded >= OccludedLevel

EitherOccluded(e) == Occluded(e[1]) \/ Occluded(e[2])

BothOccluded(e) == Occluded(e[1]) /\ Occluded(e[2])

\* a line from e[1] to e[2] in this colour was drawn
LineDrawn(e, color) ==
    \E k \in 1..Len(Drawn) :
        /\ Drawn[k].op = "line"
        /\ Drawn[k].p = e[1].pos
        /\ Drawn[k].q = e[2].pos
        /\ Drawn[k].color = color

\* the edges of the predicted faces of the last call
PredictedEdges ==
    UNION {EdgePairs(last.faces[i].parts) : i \in 1..Len(last.faces)}

\* C5 as claimed: in show and in save an edge is drawn in the occluded tone
\* (blue for ground truth, red for predictions) if and only if at least one
\* of its two endpoints has occluded >= 0.5, and in the normal tone (cyan,
\* green) otherwise.
C5_OccludedIfEither ==
    IsDrawing =>
        /\ \A e \in EdgePairs(last.ann.parts) :
             LineDrawn(e, IF EitherOccluded(e) THEN blue_color ELSE cyan_color)
        /\ \A e \in PredictedEdges :
             LineDrawn(e, IF EitherOccluded(e) THEN red_color ELSE green_color)

\* C5 as amended: in show and in save an edge is drawn in the occluded tone
\* if and only if both of its endpoints have occluded >= 0.5, and in the
\* normal tone when at least one endpoint is not occluded; no other line is
\* drawn.
C5_OccludedIfBoth ==
    IsDrawing =>
        /\ \A e \in EdgePairs(last.ann.parts) :
             LineDrawn(e, IF BothOccluded(e) THEN blue_color ELSE cyan_color)
        /\ \A e \in PredictedEdges :
             LineDrawn(e, IF BothOccluded(e) THEN red_color ELSE green_color)
        /\ \A k \in 1..Len(Drawn) :
             Drawn[k].op = "line" =>
               \/ \E e \in EdgePairs(last.ann.parts) :
                    /\ Drawn[k].p = e[1].pos /\ Drawn[k].q = e[2].pos
                    /\ Drawn[k].color =
                         IF BothOccluded(e) THEN blue_color ELSE cyan_color
               \/ \E e \in PredictedEdges :
                    /\ Drawn[k].p = e[1].pos /\ Drawn[k].q = e[2].pos
                    /\ Drawn[k].color =
                         IF BothOccluded(e) THEN red_color ELSE green_color

\* save drew a ground-truth edge and a predicted edge with one occluded
\* endpoint each in the normal tones, and edges with two occluded endpoints
\* in the occluded tones
C5_Witness ==
    /\ last.op = "save"
    /\ \E e \in EdgePairs(last.ann.parts) :
         EitherOccluded(e) /\ ~BothOccluded(e) /\ LineDrawn(e, cyan_color)
    /\ \E e \in PredictedEdges :
         EitherOccluded(e) /\ ~BothOccluded(e) /\ LineDrawn(e, green_color)
    /\ \E e \in EdgePairs(last.ann.parts) :
         BothOccluded(e) /\ LineDrawn(e, blue_color)
    /\ \E e \in PredictedEdges :
         BothOccluded(e) /\ LineDrawn(e, red_color)

--------------------------------------------------------------------------
(* C6: a face with no matched landmark. *)

\* C6: when the error computer returns no error for a predicted face, save
\* does not produce a NaN mean error, draw it as text and compare it with
\* the threshold.
C6_NoSilentNaN ==
    IsSave =>
        \A i \in 1..Len(last.log) :
          last.log[i].errors = <<>> =>
            /\ ~is_nan(last.log[i].err)
            /\ PutText(<<"n", "a", "n">>) \notin Range(last.log[i].image.drawn)

--------------------------------------------------------------------------
(* C7: the report line. *)

\* C7: evaluate appends to the stream one line per predicted face, in list
\* order; the line is the label, the ground-truth filename, and for every
\* (id, error) pair of the error computer, in its order, the four tokens id,
\* error, ground-truth occlusion, predicted occlusion: 2 + 4k tokens for k
\* pairs.
C7_FourTokensPerPair ==
    last.op = "evaluate" =>
        /\ Len(last.output) = Len(last.before) + Len(last.faces)
        /\ SubSeq(last.output, 1, Len(last.before)) = last.before
        /\ \A i \in 1..Len(last.faces) :
             LET res  == getNormalizedErrors(last.faces[i], last.ann, last.measure)
                 line == last.output[Len(last.before) + i]
             IN  /\ Len(line) = 2 + 4 * Len(res.indices)
                 /\ line[1] = getComponentClass
                 /\ line[2] = last.ann.filename
                 /\ \A j \in 1..Len(res.indices) :
                      /\ line[4 * j - 1] = to_string(res.indices[j])
                      /\ line[4 * j] = float_to_string(res.errors[j])
                      /\ line[4 * j + 1] =
                           to_string(OcclusionOf(last.ann.parts, res.indices[j]))
                      /\ line[4 * j + 2] =
                           to_string(OcclusionOf(last.faces[i].parts, res.indices[j]))

\* two faces reported after a line already in the stream: ten tokens for the
\* face with two matched landmarks, two tokens for the face with none
C7_Witness ==
    /\ last.op = "evaluate"
    /\ Len(last.before) = 1
    /\ Len(last.faces) = 2
    /\ Len(last.output[2]) = 10
    /\ Len(last.output[3]) = 2

--------------------------------------------------------------------------
(* C8: the measure option. *)

Recognised == {"pupils", "corners", "height", "diagonal"}

\* C8 as claimed: a measure string outside pupils, corners, height, diagonal
\* selects height, the measure selected when the option is absent; each of
\* the four strings selects the measure of its name.
C8_FallbackIsDefault ==
    last.op = "parseOptions" =>
        /\ _measure \in ErrorMeasure
        /\ _measure = IF last.argv.measure \in Recognised
                      THEN MeasureNamed(last.argv.measure)
                      ELSE height

\* C8 as amended: a measure string outside pupils, corners, height, diagonal
\* selects diagonal without a fault; an absent option selects height; each
\* of the four strings selects the measure of its name.
C8_FallbackIsDiagonal ==
    last.op = "parseOptions" =>
        /\ _measure \in ErrorMeasure
        /\ _measure = IF last.argv.measure \in Recognised
                      THEN MeasureNamed(last.argv.measure)
                      ELSE IF last.argv.measure = NoOption THEN height
                      ELSE diagonal

\* an unrecognised measure string was parsed and diagonal selected
C8_Witness ==
    /\ last.op = "parseOptions"
    /\ last.argv.measure = "area"
    /\ _measure = diagonal

--------------------------------------------------------------------------
(* C9: probe and write of concurrent save calls. *)

\* the files written by a save, as opposed to those found in the directory
NewFiles == {p \in DOMAIN fs : fs[p] # OldImage}

\* C9: nothing ties the write to the probe: every write of a concurrent save
\* leaves its image at the probed path, also when another call created that
\* file after the probe found the path free; then the other call's image is
\* gone and the directory has no more files than before the write.
C9_WriteAfterStaleProbe ==
    last.op = "imwrite" =>
        /\ fs[last.filepath] = last.image
        /\ \A p \in DOMAIN last.before :
             p # last.filepath => p \in DOMAIN fs /\ fs[p] = last.before[p]
        /\ last.existed =>
             Cardinality(DOMAIN fs) = Cardinality(DOMAIN last.before)

\* both calls probed the same index free and chose the same path; the second
\* write replaced the first call's different image: two hard cases written,
\* one file
C9_Witness ==
    /\ last.op = "imwrite"
    /\ last.existed
    /\ \E v \in Writers \ {last.w} :
         /\ writers[v].pc = "done"
         /\ last.filepath \in Range(writers[v].written)
    /\ last.before[last.filepath] # last.image
    /\ saved = 2
    /\ Cardinality(NewFiles) = 1

--------------------------------------------------------------------------
(* C10: one image for all faces of a call. *)

\* what the loop of save draws for its i-th face
OwnOverlay(i) ==
    skeleton(last.faces[i].parts, green_color, red_color,
             radius_of(last.ann), thickness_of(last.ann))
    \o <<PutText(float_to_string(last.log[i].err))>>

RECURSIVE OverlaysUpTo(_)
OverlaysUpTo(i) == IF i = 0 THEN <<>> ELSE OverlaysUpTo(i - 1) \o OwnOverlay(i)

\* C10: within a save call the image is decoded once; the image of the i-th
\* face, which is what is written when the face is hard, carries the ground
\* truth skeleton followed by the skeletons and mean-error texts of the
\* faces 1..i of the list in order, and nothing of a later face.
C10_OverlaysAccumulate ==
    IsSave =>
        \A i \in 1..Len(last.log) :
          /\ last.log[i].image.src = last.ann.filename
          /\ last.log[i].image.drawn =
               ground_truth_drawn(last.ann).drawn \o OverlaysUpTo(i)
          /\ last.log[i].hard => fs[PathOf(i)] = last.log[i].image

\* two different faces, both hard: the second file carries the first face's
\* skeleton and text as well, the first file nothing of the second face
C10_Witness ==
    /\ IsSave
    /\ HardFaces = {1, 2}
    /\ last.faces[1] # last.faces[2]
    /\ Len(fs[PathOf(2)].drawn) = Len(fs[PathOf(1)].drawn) + Len(OwnOverlay(2))
    /\ SubSeq(fs[PathOf(2)].drawn, 1, Len(fs[PathOf(1)].drawn)) = fs[PathOf(1)].drawn

==========================================================================
